---- MODULE Spec2Model ----
(***************************************************************************)
(* State-machine model of scenedetect.scene_manager.SceneManager and the   *)
(* helper functions of scenedetect/scene_manager.py.                       *)
(*                                                                         *)
(* Frame positions and timecodes are counted in frames.  A FrameTimecode   *)
(* built on the base timecode of the video is represented by its frame     *)
(* number (the base timecode itself is frame 0 of the video's framerate).  *)
(***************************************************************************)
EXTENDS Integers, Sequences, FiniteSets, TLC

----------------------------------------------------------------------------
(* Bounds of the model *)

MaxLen == 2          \* longest video, in frames
MaxRuns == 2         \* detect_scenes calls in one behaviour
MaxCuts == 2         \* longest internal cut list
MaxEvents == 1       \* longest internal event list
MaxDetectors == 2    \* longest dense detector list
MaxSparse == 1       \* longest sparse detector list
MaxSkip == 1         \* largest frame_skip argument
MaxDownscale == 3    \* largest whole value assigned to the downscale property
MaxWidth == 24       \* largest frame width given to compute_downscale_factor
MaxTarget == 8       \* largest effective width given to compute_downscale_factor
MaxVal == 2          \* largest content_val of a frame
MaxThreshold == 2    \* largest threshold of a ContentDetector
MaxMinSceneLen == 2  \* largest min_scene_len of a ContentDetector
MaxFrames == 4       \* frames handed to a ContentDetector on its own
MaxProduct == 2000000000  \* largest milliseconds * fps the additions work with
MaxSceneLen == 5     \* longest scene given to save_images, in frames
MaxImages == 4       \* largest num_images given to save_images
MaxMargin == 2       \* largest frame_margin given to save_images
MaxSkipLen == 4      \* longest video read with frames skipped
MaxCsvFrames == 4    \* frames of the videos whose scenes are written to CSV
MaxSplitScenes == 3  \* longest scene list handed to the video splitters

\* Python's None, for the optional integers of the program.
None == 0 - 99

----------------------------------------------------------------------------
(* Detectors.  The detector classes are not part of scene_manager.py; a     *)
(* detector is described by what the manager asks of it.                    *)

ContentDet == [name |-> "content", sparse |-> FALSE, req |-> FALSE,
               metrics |-> {"content_val"}, sm |-> None]
CustomDet == [name |-> "custom", sparse |-> FALSE, req |-> TRUE,
              metrics |-> {"custom_val"}, sm |-> None]
MotionDet == [name |-> "motion", sparse |-> TRUE, req |-> FALSE,
              metrics |-> {}, sm |-> None]

DenseTypes == {ContentDet, CustomDet}

\* A detector some of whose metric names another detector registers as well
\* (the ContentDetector with its edge term enabled).
EdgesDet == [name |-> "content_edges", sparse |-> FALSE, req |-> FALSE,
             metrics |-> {"content_val", "delta_edges"}, sm |-> None]

\* The ContentDetector of the specification: its parameters and the state of
\* its cut emission rule.
ContentDetector(thr, msl) ==
    [name |-> "content_detector", sparse |-> FALSE, req |-> FALSE,
     metrics |-> {"content_val", "delta_hue", "delta_sat", "delta_lum"}, sm |-> None,
     threshold |-> thr, min_scene_len |-> msl, prev_cut_frame |-> 0]

ContentTypes ==
    {ContentDetector(thr, msl) : thr \in 1..MaxThreshold, msl \in 0..MaxMinSceneLen}

IsContentDetector(det) == det.name = "content_detector"
SparseTypes == {MotionDet}

\* References to StatsManager objects: the one handed to the constructor and
\* the one add_detector allocates.
ExternalSM == 1
AutoSM == 2

VARIABLES
    cutting_list,           \* SceneManager._cutting_list
    event_list,             \* SceneManager._event_list
    detector_list,          \* SceneManager._detector_list
    sparse_detector_list,   \* SceneManager._sparse_detector_list
    stats_manager,          \* SceneManager._stats_manager (a reference or None)
    num_frames,             \* SceneManager._num_frames
    start_frame,            \* SceneManager._start_frame
    base_timecode,          \* SceneManager._base_timecode
    registered_metrics,     \* StatsManager: registered metric names
    frame_metrics,          \* StatsManager: set of <<frame, metric>> with a value
    frame_number,           \* VideoStream.frame_number
    video_len,              \* number of frames the source holds
    pc,                     \* position inside detect_scenes ("idle" outside)
    duration,               \* argument of detect_scenes
    end_time,               \* argument / local of detect_scenes
    frame_skip,             \* argument of detect_scenes
    callback,               \* TRUE when a callback was passed
    last_frame,             \* local of detect_scenes
    decoded,                \* local of detect_scenes
    frame_im,               \* local of detect_scenes: index of the decoded image
    det_i,                  \* index of the detector the loops are at
    outcome,                \* "none", "returned" or the exception raised
    ret,                    \* value returned by the last detect_scenes
    trace,                  \* calls made by the running / last detect_scenes
    entry_pos,              \* source position when detect_scenes was called
    args,                   \* arguments of the running / last detect_scenes
    runs,                   \* number of detect_scenes calls so far
    downscale,              \* SceneManager._downscale
    auto_downscale,         \* SceneManager._auto_downscale
    downscale_factor,       \* local of detect_scenes
    fn_args,                \* arguments of a module-level function under study
    fn_ret,                 \* what that function returned (None before the call)
    video_content,          \* content_val the frames of the source give rise to
    content_cache,          \* StatsManager: the content_val stored for a frame
    run_log                 \* what the completed detect_scenes runs did, when logged

mgrVars == <<cutting_list, event_list, detector_list, sparse_detector_list,
             stats_manager, num_frames, start_frame, base_timecode>>
statsVars == <<registered_metrics, frame_metrics>>
videoVars == <<frame_number, video_len>>
callVars == <<pc, duration, end_time, frame_skip, callback, last_frame,
              decoded, frame_im, det_i>>
obsVars == <<outcome, ret, trace, entry_pos, args, runs>>
cfgVars == <<downscale, auto_downscale>>
fnVars == <<fn_args, fn_ret>>
cdVars == <<video_content, content_cache, run_log>>
extVars == <<cfgVars, fnVars, cdVars>>
vars == <<mgrVars, statsVars, videoVars, callVars, obsVars, downscale_factor, extVars>>

----------------------------------------------------------------------------
(* Pure helpers *)

Range(s) == {s[k] : k \in 1..Len(s)}

Min(S) == CHOOSE m \in S : \A x \in S : m <= x

RECURSIVE SortedSeqOfSet(_)
SortedSeqOfSet(S) ==
    IF S = {} THEN <<>>
    ELSE LET m == Min(S) IN <<m>> \o SortedSeqOfSet(S \ {m})

\* Python's ordering of 2-tuples.
TupleLess(a, b) == a[1] < b[1] \/ (a[1] = b[1] /\ a[2] < b[2])

RECURSIVE InsertSorted(_, _)
InsertSorted(x, s) ==
    IF s = <<>> THEN <<x>>
    ELSE IF TupleLess(x, Head(s)) THEN <<x>> \o s
    ELSE <<Head(s)>> \o InsertSorted(x, Tail(s))

RECURSIVE SortedPairs(_)
SortedPairs(s) ==
    IF s = <<>> THEN <<>>
    ELSE InsertSorted(s[Len(s)], SortedPairs(SubSeq(s, 1, Len(s) - 1)))

\* FrameTimecode.__add__ with a frame count.
TcAdd(tc, n) == tc + n

\* FrameTimecode(cut, base_timecode): the timecode of frame `cut`.
FrameTimecode(frames, base) == frames

----------------------------------------------------------------------------
(* scene_manager.py: module-level helpers and the queries of SceneManager *)

RECURSIVE ScenesLoop(_, _)
\* The for loop of get_scenes_from_cuts: one scene per cut, then last_cut.
ScenesLoop(cuts, last_cut) ==
    IF cuts = <<>> THEN <<>>
    ELSE << <<last_cut, Head(cuts)>> >> \o ScenesLoop(Tail(cuts), Head(cuts))

get_scenes_from_cuts(cut_list, base, nframes, start) ==
    IF cut_list = <<>>
    THEN << <<TcAdd(base, start), TcAdd(TcAdd(base, start), nframes)>> >>
    ELSE ScenesLoop(cut_list, TcAdd(base, start))
         \o << <<cut_list[Len(cut_list)], TcAdd(TcAdd(base, start), nframes)>> >>

RECURSIVE InsertInt(_, _)
InsertInt(x, s) ==
    IF s = <<>> THEN <<x>>
    ELSE IF x < Head(s) THEN <<x>> \o s
    ELSE <<Head(s)>> \o InsertInt(x, Tail(s))

RECURSIVE SortedInts(_)
\* Python's sorted() on a list of integers.
SortedInts(s) ==
    IF s = <<>> THEN <<>>
    ELSE InsertInt(s[Len(s)], SortedInts(SubSeq(s, 1, Len(s) - 1)))

\* The cutting list sorted without the set(): duplicates survive.
GetCuttingList_NoSet(cl) == SortedInts(cl)

\* SceneManager._get_cutting_list: sorted(list(set(self._cutting_list)))
GetCuttingList(cl) == SortedSeqOfSet(Range(cl))

get_cut_list_of(cl, base) ==
    IF base = None THEN <<>>
    ELSE [k \in 1..Len(GetCuttingList(cl)) |-> FrameTimecode(GetCuttingList(cl)[k], base)]

get_event_list_of(el, base) ==
    IF base = None THEN <<>>
    ELSE [k \in 1..Len(el) |-> <<TcAdd(base, el[k][1]), TcAdd(base, el[k][2])>>]

\* The scene list built from the cuts alone.
get_scene_list_of_NoEvents(cl, el, base, nframes, start) ==
    IF base = None THEN <<>>
    ELSE SortedPairs(get_scenes_from_cuts(get_cut_list_of(cl, base), base, nframes, start))

\* SceneManager.get_scene_list
get_scene_list_of(cl, el, base, nframes, start) ==
    IF base = None THEN <<>>
    ELSE SortedPairs(get_event_list_of(el, base)
                     \o get_scenes_from_cuts(get_cut_list_of(cl, base), base, nframes, start))

get_cut_list == get_cut_list_of(cutting_list, base_timecode)
get_event_list == get_event_list_of(event_list, base_timecode)
get_scene_list ==
    get_scene_list_of(cutting_list, event_list, base_timecode, num_frames, start_frame)

\* StatsManager.metrics_exist
metrics_exist(f, names) == \A m \in names : <<f, m>> \in frame_metrics

\* SceneDetector.is_processing_required
DetRequires(det, f) == ~(det.sm # None /\ metrics_exist(f, det.metrics))

\* SceneManager._is_processing_required: all([...]) over the dense detectors
IsProcessingRequired(f) ==
    \A k \in 1..Len(detector_list) : DetRequires(detector_list[k], f)

\* VideoStream.position: the frame most recently read (frame 0 before any read),
\* for a source whose frame_number is fn.
Position(fn) == IF fn < 1 THEN 0 ELSE fn - 1

\* The arguments of a detect_scenes call.
Args(d, e, fs, cb) == [duration |-> d, end_time |-> e, frame_skip |-> fs, callback |-> cb]
NoArgs == Args(None, None, 0, FALSE)

\* The event a call leaves in the trace.
Ev(op, det, frame, x, y) == [op |-> op, det |-> det, frame |-> frame, x |-> x, y |-> y]

\* The default minimum width a frame is downscaled to.
DEFAULT_MIN_WIDTH == 256

\* video.frame_size[0] of the source the manager runs on.
VideoFrameWidth == 1280

\* The factor taken as is whenever it is at least 1: no cap at the width.
compute_downscale_factor_Ceil(frame_width, effective_width) ==
    IF frame_width < effective_width THEN 1
    ELSE (frame_width + effective_width - 1) \div effective_width

\* compute_downscale_factor (the assert holds for the widths the model draws)
compute_downscale_factor(frame_width, effective_width) ==
    IF frame_width < effective_width THEN 1
    ELSE frame_width \div effective_width

----------------------------------------------------------------------------
(* Initial state: SceneManager.__init__ and a freshly opened video *)

\* SceneManager.__init__, and no call made yet.
InitObject ==
    /\ cutting_list = <<>>
    /\ event_list = <<>>
    /\ detector_list = <<>>
    /\ sparse_detector_list = <<>>
    /\ stats_manager \in {None, ExternalSM}
    /\ num_frames = 0
    /\ start_frame = 0
    /\ base_timecode = None
    /\ registered_metrics = {}
    /\ frame_metrics = {}
    /\ frame_number = 0
    /\ pc = "idle"
    /\ duration = None
    /\ end_time = None
    /\ frame_skip = 0
    /\ callback = FALSE
    /\ last_frame = 0
    /\ decoded = FALSE
    /\ frame_im = None
    /\ det_i = 1
    /\ outcome = "none"
    /\ ret = None
    /\ trace = <<>>
    /\ entry_pos = 0
    /\ args = NoArgs
    /\ runs = 0
    /\ downscale = 1
    /\ auto_downscale = FALSE
    /\ downscale_factor = None

InitManager ==
    /\ InitObject
    /\ video_len \in 0..MaxLen

\* A StatsManager without values, and no run logged.
InitStats ==
    /\ content_cache = [f \in 0..(MaxLen - 1) |-> None]
    /\ run_log = <<>>

Init ==
    /\ InitManager
    /\ InitStats
    /\ video_content = [f \in 0..(video_len - 1) |-> 0]
    /\ fn_args = <<>>
    /\ fn_ret = None

\* A module-level function is called on arguments drawn from S; no manager
\* is in use.
InitFunction(S) ==
    /\ InitManager
    /\ InitStats
    /\ stats_manager = None
    /\ video_len = 0
    /\ video_content = <<>>
    /\ fn_args \in S
    /\ fn_ret = None

----------------------------------------------------------------------------
(* Operations outside detect_scenes *)

\* What the idle operations leave of the observation of the last call.
Observe(result) ==
    /\ outcome' = result
    /\ ret' = None
    /\ trace' = <<>>
    /\ args' = NoArgs
    /\ UNCHANGED <<entry_pos, runs>>

\* add_detector with the assert of line 533 stripped.
add_detector_NoAssert(d) ==
    /\ pc = "idle"
    /\ IF d.sparse THEN Len(sparse_detector_list) < MaxSparse
                   ELSE Len(detector_list) < MaxDetectors
    /\ LET sm == IF stats_manager = None /\ d.req THEN AutoSM ELSE stats_manager
           det == [d EXCEPT !.sm = sm]
       IN  /\ stats_manager' = sm
           /\ registered_metrics' =
                 IF sm # None THEN registered_metrics \cup d.metrics
                              ELSE registered_metrics
           /\ IF d.sparse
              THEN /\ sparse_detector_list' = Append(sparse_detector_list, det)
                   /\ UNCHANGED detector_list
              ELSE /\ detector_list' = Append(detector_list, det)
                   /\ UNCHANGED sparse_detector_list
           /\ Observe("none")
           /\ UNCHANGED <<cutting_list, event_list, num_frames, start_frame,
                          base_timecode, frame_metrics>>
    /\ UNCHANGED <<videoVars, callVars, downscale_factor, extVars>>

\* SceneManager.add_detector
add_detector(d) ==
    /\ pc = "idle"
    /\ IF d.sparse THEN Len(sparse_detector_list) < MaxSparse
                   ELSE Len(detector_list) < MaxDetectors
    /\ IF stats_manager = None /\ d.req
          /\ (detector_list # <<>> \/ sparse_detector_list # <<>>)
       THEN \* the assert fails
            /\ Observe("AssertionError")
            /\ UNCHANGED <<mgrVars, statsVars>>
       ELSE LET sm == IF stats_manager = None /\ d.req THEN AutoSM ELSE stats_manager
                det == [d EXCEPT !.sm = sm]
            IN  /\ stats_manager' = sm
                /\ registered_metrics' =
                      IF sm # None THEN registered_metrics \cup d.metrics
                                   ELSE registered_metrics
                /\ IF d.sparse
                   THEN /\ sparse_detector_list' = Append(sparse_detector_list, det)
                        /\ UNCHANGED detector_list
                   ELSE /\ detector_list' = Append(detector_list, det)
                        /\ UNCHANGED sparse_detector_list
                /\ Observe("none")
                /\ UNCHANGED <<cutting_list, event_list, num_frames, start_frame,
                               base_timecode, frame_metrics>>
    /\ UNCHANGED <<videoVars, callVars, downscale_factor, extVars>>

\* clear that forgets the detectors as well.
clear_WithDetectors ==
    /\ pc = "idle"
    /\ cutting_list' = <<>>
    /\ event_list' = <<>>
    /\ num_frames' = 0
    /\ start_frame' = 0
    /\ detector_list' = <<>>
    /\ sparse_detector_list' = <<>>
    /\ Observe("none")
    /\ UNCHANGED <<stats_manager, base_timecode,
                   statsVars, videoVars, callVars, downscale_factor, extVars>>

\* SceneManager.clear
clear ==
    /\ pc = "idle"
    /\ cutting_list' = <<>>
    /\ event_list' = <<>>
    /\ num_frames' = 0
    /\ start_frame' = 0
    /\ Observe("none")
    /\ UNCHANGED <<detector_list, sparse_detector_list, stats_manager, base_timecode,
                   statsVars, videoVars, callVars, downscale_factor, extVars>>

\* clear_detectors that drops the results along with the detectors.
clear_detectors_AndResults ==
    /\ pc = "idle"
    /\ detector_list' = <<>>
    /\ sparse_detector_list' = <<>>
    /\ cutting_list' = <<>>
    /\ event_list' = <<>>
    /\ Observe("none")
    /\ UNCHANGED <<stats_manager, num_frames, start_frame,
                   base_timecode, statsVars, videoVars, callVars, downscale_factor,
                   extVars>>

\* SceneManager.clear_detectors
clear_detectors ==
    /\ pc = "idle"
    /\ detector_list' = <<>>
    /\ sparse_detector_list' = <<>>
    /\ Observe("none")
    /\ UNCHANGED <<cutting_list, event_list, stats_manager, num_frames, start_frame,
                   base_timecode, statsVars, videoVars, callVars, downscale_factor,
                   extVars>>

\* VideoStream.seek(target): the next frame read is frame `target`.
seek(target) ==
    /\ pc = "idle"
    /\ target # frame_number
    /\ frame_number' = target
    /\ Observe("none")
    /\ UNCHANGED <<mgrVars, statsVars, video_len, callVars, downscale_factor, extVars>>

\* Values assigned to the downscale property, counted in halves: h stands for
\* the number h / 2, so that 3 is the float 1.5 and 4 the int 2.
DownscaleValues == (0 - 2) .. (2 * MaxDownscale + 1)

\* isinstance(value, int), for a value given in halves.
IsInt(h) == h % 2 = 0

\* int(value) for a value >= 0 given in halves: truncation.
IntOf(h) == (h - (h % 2)) \div 2

ErrDownscale == "ValueError: Downscale factor must be a positive integer >= 1!"

\* The setter without its range check.
set_downscale_Unchecked(h) ==
    /\ pc = "idle"
    /\ downscale' = IF IsInt(h) THEN h \div 2 ELSE IntOf(h)
    /\ Observe("none")
    /\ UNCHANGED <<mgrVars, statsVars, videoVars, callVars, downscale_factor,
                   auto_downscale, fnVars, cdVars>>

\* SceneManager.downscale setter
set_downscale(h) ==
    /\ pc = "idle"
    /\ IF h < 2
       THEN /\ Observe(ErrDownscale)
            /\ UNCHANGED downscale
       ELSE /\ downscale' = IF IsInt(h) THEN h \div 2 ELSE IntOf(h)
            /\ Observe("none")
    /\ UNCHANGED <<mgrVars, statsVars, videoVars, callVars, downscale_factor,
                   auto_downscale, fnVars, cdVars>>

\* SceneManager.auto_downscale setter
set_auto_downscale(b) ==
    /\ pc = "idle"
    /\ auto_downscale' = b
    /\ Observe("none")
    /\ UNCHANGED <<mgrVars, statsVars, videoVars, callVars, downscale_factor,
                   downscale, fnVars, cdVars>>

----------------------------------------------------------------------------
(* detect_scenes *)

\* Values passed for duration and end_time.
TimeArgs == {None} \cup (0 - 1 .. MaxLen - 1)

\* video.base_timecode, in frames.
VideoBaseTimecode == 0

\* The frame_skip check left out.
FrameSkipInvalid_Missing(fs, sm) == FALSE

\* Both times are accepted, duration winning.
BothTimesGiven_Missing(d, e) == FALSE

\* The four argument checks that open detect_scenes.
FrameSkipInvalid(fs, sm) == fs > 0 /\ sm # None
BothTimesGiven(d, e) == d # None /\ e # None
NegativeDuration(d) == d # None /\ d < 0
NegativeEndTime(e) == e # None /\ e < 0

\* The ValueError each check raises.
ErrFrameSkip == "ValueError: frame_skip must be 0 when using a StatsManager."
ErrBothTimes == "ValueError: duration and end_time cannot be set at the same time!"
ErrDuration == "ValueError: duration must be greater than or equal to 0!"
ErrEndTime == "ValueError: end_time must be greater than or equal to 0!"
ValueErrors == {ErrFrameSkip, ErrBothTimes, ErrDuration, ErrEndTime}

\* Lines 703-710: the first check that fails raises; "none" when all pass.
ArgsError ==
    IF FrameSkipInvalid(frame_skip, stats_manager) THEN ErrFrameSkip
    ELSE IF BothTimesGiven(duration, end_time) THEN ErrBothTimes
    ELSE IF NegativeDuration(duration) THEN ErrDuration
    ELSE IF NegativeEndTime(end_time) THEN ErrEndTime
    ELSE "none"

\* The call: binds the arguments.
CallEffect(d, e, fs, cb) ==
    /\ pc = "idle"
    /\ runs < MaxRuns
    /\ pc' = "entry"
    /\ duration' = d
    /\ end_time' = e
    /\ frame_skip' = fs
    /\ callback' = cb
    /\ outcome' = "none"
    /\ ret' = None
    /\ trace' = <<>>
    /\ entry_pos' = frame_number
    /\ args' = Args(d, e, fs, cb)
    /\ runs' = runs + 1
    /\ UNCHANGED <<mgrVars, statsVars, videoVars, last_frame, decoded, frame_im, det_i,
                   downscale_factor, cfgVars, fnVars, video_content, content_cache>>

\* What the manager returns to its queries, and its counters.
Results ==
    [cutting_list |-> cutting_list, event_list |-> event_list,
     start_frame |-> start_frame, num_frames |-> num_frames,
     scene_list |-> get_scene_list]

\* SceneManager.detect_scenes is called.
detect_scenes(d, e, fs, cb) == CallEffect(d, e, fs, cb) /\ UNCHANGED run_log

\* detect_scenes is called, and the results the manager holds are logged.
DetectScenesLogged(d, e, fs, cb) == CallEffect(d, e, fs, cb) /\ run_log' = <<Results>>

\* end_time after `end_time = duration + start` and `base_timecode + end_time`.
NormalizedEndTime(d, e, start, base) ==
    IF d # None THEN TcAdd(base, d + start)
    ELSE IF e # None THEN TcAdd(base, e)
    ELSE None

\* Lines 703-744: argument checks, then the set-up of the loop.
DetectEntry ==
    /\ pc = "entry"
    /\ IF ArgsError # "none"
       THEN /\ outcome' = ArgsError
            /\ pc' = "idle"
            /\ duration' = None
            /\ end_time' = None
            /\ frame_skip' = 0
            /\ callback' = FALSE
            /\ UNCHANGED <<mgrVars, last_frame, decoded, frame_im, det_i,
                           downscale_factor>>
       ELSE /\ base_timecode' = VideoBaseTimecode
            /\ start_frame' = frame_number
            /\ downscale_factor' =
                  IF auto_downscale
                  THEN compute_downscale_factor(VideoFrameWidth, DEFAULT_MIN_WIDTH)
                  ELSE downscale
            /\ end_time' = NormalizedEndTime(duration, end_time, frame_number,
                                             VideoBaseTimecode)
            /\ last_frame' = 0
            /\ decoded' = FALSE
            /\ frame_im' = None
            /\ det_i' = 1
            /\ pc' = "read"
            /\ UNCHANGED <<cutting_list, event_list, detector_list, sparse_detector_list,
                           stats_manager, num_frames, outcome, duration, frame_skip,
                           callback>>
    /\ UNCHANGED <<statsVars, videoVars, ret, trace, entry_pos, args, runs, extVars>>

\* Where the loop goes after the dense detector at index k has run.
AfterDense(k) ==
    IF k < Len(detector_list) THEN "dense"
    ELSE IF sparse_detector_list # <<>> THEN "sparse"
    ELSE "skip"

AfterSparse(k) == IF k < Len(sparse_detector_list) THEN "sparse" ELSE "skip"

\* The condition of line 750: is a decoded frame pulled?
DecodeWanted == IsProcessingRequired(frame_number) \/ IsProcessingRequired(frame_number + 1)

\* Lines 750-763: video.read() or video.read(decode=False), then last_frame.
ReadFrame ==
    /\ pc = "read"
    /\ LET want == DecodeWanted
           eof == frame_number >= video_len
       IN  IF eof
           THEN /\ pc' = "post"
                /\ det_i' = 1
                /\ trace' = Append(trace, Ev("read", 0, frame_number,
                                             IF want THEN 1 ELSE 0, 0))
                /\ UNCHANGED <<frame_number, frame_im, last_frame, decoded>>
           ELSE /\ frame_number' = frame_number + 1
                /\ frame_im' = IF want THEN frame_number ELSE frame_im
                /\ last_frame' = frame_number' - 1
                /\ decoded' = TRUE
                /\ pc' = AfterDense(0)
                /\ det_i' = 1
                /\ trace' = Append(trace, Ev("read", 0, frame_number,
                                             IF want THEN 1 ELSE 0, 1))
    /\ UNCHANGED <<mgrVars, statsVars, video_len, duration, end_time, frame_skip,
                   callback, outcome, ret, entry_pos, args, runs,
                   downscale_factor, extVars>>

\* What a dense detector may return for a frame: nothing, the frame itself, or
\* the first frame of the run (a cut found late).
CutChoices(lo, hi) ==
    IF Len(cutting_list) >= MaxCuts THEN {<<>>}
    ELSE {<<>>, <<hi>>, <<lo>>}

\* What a sparse detector may return: nothing, or one event from
\* the first frame of the run to the frame.
EventChoices(lo, hi) ==
    IF Len(event_list) >= MaxEvents THEN {<<>>}
    ELSE {<<>>, << <<lo, hi>> >>}

\* A detector computes the metrics of the frame into its StatsManager.
SetMetrics(det, f) ==
    IF det.sm # None THEN frame_metrics \cup {<<f, m>> : m \in det.metrics}
    ELSE frame_metrics

\* The callback invoked for every frame, fired or not.
FrameEvents_Always(k, out, firstOut, seen) ==
    <<Ev("process_frame", k, last_frame, frame_im, firstOut)>>
    \o (IF callback
        THEN <<Ev("callback", k, last_frame, frame_im, IF seen THEN 1 ELSE 0)>>
        ELSE <<>>)

\* The callback left out for a cut or event the list already holds.
FrameEvents_Dedup(k, out, firstOut, seen) ==
    <<Ev("process_frame", k, last_frame, frame_im, firstOut)>>
    \o (IF out # <<>> /\ callback /\ ~seen
        THEN <<Ev("callback", k, last_frame, frame_im, IF seen THEN 1 ELSE 0)>>
        ELSE <<>>)

\* The events of one detector's turn in _process_frame.
FrameEvents(k, out, firstOut, seen) ==
    <<Ev("process_frame", k, last_frame, frame_im, firstOut)>>
    \o (IF out # <<>> /\ callback
        THEN <<Ev("callback", k, last_frame, frame_im, IF seen THEN 1 ELSE 0)>>
        ELSE <<>>)

\* _process_frame, dense loop (lines 645-649), one detector.
ProcessDense ==
    /\ pc = "dense"
    /\ det_i <= Len(detector_list)
    /\ ~IsContentDetector(detector_list[det_i])
    /\ \E cuts \in CutChoices(start_frame, last_frame) :
          /\ trace' = trace \o FrameEvents(det_i, cuts,
                                           IF cuts = <<>> THEN None ELSE cuts[1],
                                           cuts # <<>> /\ cuts[1] \in Range(cutting_list))
          /\ cutting_list' = cutting_list \o cuts
    /\ frame_metrics' = SetMetrics(detector_list[det_i], last_frame)
    /\ pc' = AfterDense(det_i)
    /\ det_i' = IF det_i < Len(detector_list) THEN det_i + 1 ELSE 1
    /\ UNCHANGED <<event_list, detector_list, sparse_detector_list, stats_manager,
                   num_frames, start_frame, base_timecode, registered_metrics,
                   videoVars, duration, end_time, frame_skip, callback, last_frame,
                   decoded, frame_im, outcome, ret, entry_pos, args, runs,
                   downscale_factor, extVars>>

\* The cut emission rule without the distance to the previous cut.
EmitsCut_NoMinLen(val, thr, f, prev, msl) == val >= thr

\* ContentDetector: the cut emission rule.
EmitsCut(val, thr, f, prev, msl) == val >= thr /\ f - prev >= msl

\* ContentDetector: content_val computed from the image handed over.
ContentValOf(im) == IF im = None THEN 0 ELSE video_content[im]

\* _process_frame, dense loop (lines 645-649), for a ContentDetector: metrics
\* are loaded from the StatsManager when they exist, computed and stored
\* otherwise; then the cut emission rule.
ProcessContent ==
    /\ pc = "dense"
    /\ det_i <= Len(detector_list)
    /\ IsContentDetector(detector_list[det_i])
    /\ LET det == detector_list[det_i]
           f == last_frame
           cached == det.sm # None /\ metrics_exist(f, det.metrics)
           val == IF cached THEN content_cache[f] ELSE ContentValOf(frame_im)
           emit == EmitsCut(val, det.threshold, f, det.prev_cut_frame, det.min_scene_len)
       IN  /\ trace' = trace
                 \o (IF cached THEN <<>> ELSE <<Ev("compute", det_i, f, frame_im, val)>>)
                 \o FrameEvents(det_i, IF emit THEN <<f>> ELSE <<>>,
                                IF emit THEN f ELSE None,
                                emit /\ f \in Range(cutting_list))
           /\ cutting_list' = cutting_list \o (IF emit THEN <<f>> ELSE <<>>)
           /\ detector_list' =
                 [detector_list EXCEPT ![det_i].prev_cut_frame = IF emit THEN f ELSE @]
           /\ frame_metrics' = SetMetrics(det, f)
           /\ content_cache' =
                 IF det.sm # None /\ ~cached THEN [content_cache EXCEPT ![f] = val]
                                             ELSE content_cache
    /\ pc' = AfterDense(det_i)
    /\ det_i' = IF det_i < Len(detector_list) THEN det_i + 1 ELSE 1
    /\ UNCHANGED <<event_list, sparse_detector_list, stats_manager,
                   num_frames, start_frame, base_timecode, registered_metrics,
                   videoVars, duration, end_time, frame_skip, callback, last_frame,
                   decoded, frame_im, outcome, ret, entry_pos, args, runs,
                   downscale_factor, cfgVars, fnVars, video_content, run_log>>

\* _process_frame, sparse loop (lines 650-654), one detector.
ProcessSparse ==
    /\ pc = "sparse"
    /\ det_i <= Len(sparse_detector_list)
    /\ \E events \in EventChoices(start_frame, last_frame) :
          /\ trace' = trace \o FrameEvents(MaxDetectors + det_i, events,
                                           IF events = <<>> THEN None ELSE events[1][1],
                                           events # <<>> /\ events[1] \in Range(event_list))
          /\ event_list' = event_list \o events
    /\ frame_metrics' = SetMetrics(sparse_detector_list[det_i], last_frame)
    /\ pc' = AfterSparse(det_i)
    /\ det_i' = IF det_i < Len(sparse_detector_list) THEN det_i + 1 ELSE 1
    /\ UNCHANGED <<cutting_list, detector_list, sparse_detector_list, stats_manager,
                   num_frames, start_frame, base_timecode, registered_metrics,
                   videoVars, duration, end_time, frame_skip, callback, last_frame,
                   decoded, frame_im, outcome, ret, entry_pos, args, runs,
                   downscale_factor, extVars>>

\* The loop grabbing one frame less than frame_skip.
Grabbed_OneShort(fs, fn, len) ==
    IF fs = 0 THEN 0 ELSE IF fs - 1 <= len - fn THEN fs - 1 ELSE len - fn

\* Frames the frame_skip loop grabs (lines 769-774): it stops at the end.
Grabbed(fs, fn, len) == IF fs <= len - fn THEN fs ELSE len - fn

\* The end_time test with = for >=.
EndReached_Exact(etime, pos) == etime # None /\ pos = etime

\* The end_time test with > for >=.
EndReached_Strict(etime, pos) == etime # None /\ pos > etime

\* The test of line 776.
EndReached(etime, pos) == etime # None /\ pos >= etime

\* Lines 769-777: the skipped frames, then the end_time test.
EndIteration ==
    /\ pc = "skip"
    /\ LET n == Grabbed(frame_skip, frame_number, video_len)
           pos == Position(frame_number + n)
       IN  /\ frame_number' = frame_number + n
           /\ trace' = trace \o [k \in 1..n |-> Ev("grab", 0, frame_number + k - 1, 0, 1)]
           /\ pc' = IF EndReached(end_time, pos) THEN "post" ELSE "read"
    /\ det_i' = 1
    /\ UNCHANGED <<mgrVars, statsVars, video_len, duration, end_time, frame_skip,
                   callback, last_frame, decoded, frame_im,
                   outcome, ret, entry_pos, args, runs, downscale_factor, extVars>>

\* post_process is called without asking whether a frame was processed.
PostProcessPending_Always == det_i <= Len(detector_list)

\* Lines 779-780 and 663: a detector is still to be post-processed.
PostProcessPending == decoded /\ det_i <= Len(detector_list)

\* What post_process of a detector may return; the ContentDetector emits its
\* cuts from process_frame only.
PostCuts(det) ==
    IF IsContentDetector(det) THEN {<<>>} ELSE CutChoices(start_frame, last_frame)

\* _post_process (lines 661-664, called at 779-780), one detector.
PostProcess ==
    /\ pc = "post"
    /\ PostProcessPending
    /\ \E cuts \in PostCuts(detector_list[det_i]) :
          /\ trace' = Append(trace, Ev("post_process", det_i, start_frame, last_frame,
                                       IF cuts = <<>> THEN None ELSE cuts[1]))
          /\ cutting_list' = cutting_list \o cuts
    /\ det_i' = det_i + 1
    /\ UNCHANGED <<event_list, detector_list, sparse_detector_list, stats_manager,
                   num_frames, start_frame, base_timecode, statsVars, videoVars,
                   pc, duration, end_time, frame_skip, callback, last_frame,
                   decoded, frame_im, outcome, ret, entry_pos, args, runs,
                   downscale_factor, extVars>>

\* Lines 787-788.
ReturnEffect ==
    /\ pc = "post"
    /\ ~PostProcessPending
    /\ num_frames' = frame_number - start_frame
    /\ ret' = frame_number - start_frame
    /\ outcome' = "returned"
    /\ pc' = "idle"
    /\ det_i' = 1
    /\ duration' = None
    /\ end_time' = None
    /\ frame_skip' = 0
    /\ callback' = FALSE
    /\ last_frame' = 0
    /\ decoded' = FALSE
    /\ frame_im' = None
    /\ downscale_factor' = None
    /\ UNCHANGED <<cutting_list, event_list, detector_list, sparse_detector_list,
                   stats_manager, start_frame, base_timecode, statsVars, videoVars,
                   trace, entry_pos, args, runs, cfgVars, fnVars, video_content,
                   content_cache>>

\* Cuts the process_frame calls of the trace returned.
EmittedCuts == {trace[k].y : k \in {j \in 1..Len(trace) :
                                      trace[j].op = "process_frame" /\ trace[j].y # None}}

\* Frames whose metrics a detector computed, by the trace.
ComputedFrames == {trace[k].frame : k \in {j \in 1..Len(trace) : trace[j].op = "compute"}}

\* The parameters of the ContentDetectors of a list.
DetParams(dl) == [k \in 1..Len(dl) |-> <<dl[k].threshold, dl[k].min_scene_len>>]

\* What the log keeps of the run that returns.
RunRecord ==
    [entry_pos |-> entry_pos,
     cuts |-> get_cut_list_of(cutting_list, base_timecode),
     emitted |-> EmittedCuts,
     computed |-> ComputedFrames,
     dets |-> DetParams(detector_list),
     sm |-> stats_manager,
     stored |-> frame_metrics,
     cache |-> content_cache]

\* detect_scenes returns.
DetectReturn == ReturnEffect /\ UNCHANGED run_log

\* detect_scenes returns and the run is logged.
DetectReturnLogged == ReturnEffect /\ run_log' = Append(run_log, RunRecord)

\* An exception raised inside the try block of lines 742-780 leaves
\* detect_scenes through the finally clause: lines 787-788 are not run.
Abort ==
    /\ outcome' = "Exception"
    /\ ret' = None
    /\ pc' = "idle"
    /\ det_i' = 1
    /\ duration' = None
    /\ end_time' = None
    /\ frame_skip' = 0
    /\ callback' = FALSE
    /\ last_frame' = 0
    /\ decoded' = FALSE
    /\ frame_im' = None
    /\ downscale_factor' = None
    /\ UNCHANGED <<detector_list, sparse_detector_list, stats_manager, num_frames,
                   start_frame, base_timecode, registered_metrics, videoVars,
                   entry_pos, args, runs, extVars>>

\* video.read raises (lines 752, 758).
ReadRaises ==
    /\ pc = "read"
    /\ Abort
    /\ trace' = Append(trace, Ev("raise", 0, frame_number, 0, 0))
    /\ UNCHANGED <<cutting_list, event_list, frame_metrics>>

\* process_frame of the detector whose turn it is raises (lines 646, 651).
ProcessRaises ==
    /\ pc \in {"dense", "sparse"}
    /\ Abort
    /\ trace' = Append(trace, Ev("raise", IF pc = "dense" THEN det_i ELSE MaxDetectors + det_i,
                                 last_frame, 0, 0))
    /\ UNCHANGED <<cutting_list, event_list, frame_metrics>>

\* The callback raises (lines 648, 653): the detector has returned cuts or
\* events, which are not added to the list.
CallbackRaises ==
    /\ callback
    /\ \/ /\ pc = "dense"
          /\ \E cuts \in CutChoices(start_frame, last_frame) \ {<<>>} :
                trace' = trace \o FrameEvents(det_i, cuts, cuts[1],
                                              cuts[1] \in Range(cutting_list))
                         \o <<Ev("raise", det_i, last_frame, 0, 0)>>
          /\ frame_metrics' = SetMetrics(detector_list[det_i], last_frame)
       \/ /\ pc = "sparse"
          /\ \E events \in EventChoices(start_frame, last_frame) \ {<<>>} :
                trace' = trace \o FrameEvents(MaxDetectors + det_i, events, events[1][1],
                                              events[1] \in Range(event_list))
                         \o <<Ev("raise", MaxDetectors + det_i, last_frame, 0, 0)>>
          /\ frame_metrics' = SetMetrics(sparse_detector_list[det_i], last_frame)
    /\ Abort
    /\ UNCHANGED <<cutting_list, event_list>>

\* post_process of the detector whose turn it is raises (line 664).
PostRaises ==
    /\ pc = "post"
    /\ PostProcessPending
    /\ Abort
    /\ trace' = Append(trace, Ev("raise", det_i, last_frame, 0, 0))
    /\ UNCHANGED <<cutting_list, event_list, frame_metrics>>

----------------------------------------------------------------------------

\* A manager used with dense detectors only.
Next ==
    \/ \E d \in DenseTypes : add_detector(d)
    \/ clear
    \/ clear_detectors
    \/ \E t \in 0..video_len : seek(t)
    \/ \E d \in TimeArgs, e \in TimeArgs, fs \in 0..MaxSkip, cb \in BOOLEAN :
          detect_scenes(d, e, fs, cb)
    \/ DetectEntry
    \/ ReadFrame
    \/ ProcessDense
    \/ EndIteration
    \/ PostProcess
    \/ DetectReturn

Spec == Init /\ [][Next]_vars

\* A manager used with dense and sparse detectors, running detect_scenes with
\* the default times and frame_skip.
NextSparse ==
    \/ \E d \in DenseTypes \cup SparseTypes : add_detector(d)
    \/ clear
    \/ clear_detectors
    \/ \E t \in 0..video_len : seek(t)
    \/ \E cb \in BOOLEAN : detect_scenes(None, None, 0, cb)
    \/ DetectEntry
    \/ ReadFrame
    \/ ProcessDense
    \/ ProcessSparse
    \/ EndIteration
    \/ PostProcess
    \/ DetectReturn

SpecSparse == Init /\ [][NextSparse]_vars

\* A manager whose settings are assigned between runs over the whole source.
NextSettings ==
    \/ \E d \in DenseTypes \cup SparseTypes : add_detector(d)
    \/ clear
    \/ clear_detectors
    \/ \E h \in DownscaleValues : set_downscale(h)
    \/ \E b \in BOOLEAN : set_auto_downscale(b)
    \/ detect_scenes(None, None, 0, FALSE)
    \/ DetectEntry
    \/ ReadFrame
    \/ ProcessDense
    \/ ProcessSparse
    \/ EndIteration
    \/ PostProcess
    \/ DetectReturn

SpecSettings == Init /\ [][NextSettings]_vars

\* A longer source, read with frames skipped when the manager holds no
\* StatsManager.
InitSkip ==
    /\ InitObject
    /\ InitStats
    /\ video_len \in 0..MaxSkipLen
    /\ video_content = [f \in 0..(video_len - 1) |-> 0]
    /\ fn_args = <<>>
    /\ fn_ret = None

\* A manager used with a dense and a sparse detector at most, running
\* detect_scenes to the end of the source with any frame_skip.
NextSkip ==
    \/ detector_list = <<>> /\ add_detector(ContentDet)
    \/ add_detector(MotionDet)
    \/ clear
    \/ \E t \in 0..video_len : seek(t)
    \/ \E fs \in 0..MaxSkip : detect_scenes(None, None, fs, FALSE)
    \/ DetectEntry
    \/ ReadFrame
    \/ ProcessDense
    \/ ProcessSparse
    \/ EndIteration
    \/ PostProcess
    \/ DetectReturn

SpecSkip == InitSkip /\ [][NextSkip]_vars

\* A manager whose detectors, source or callback may raise during a run over
\* the whole source.
NextRaise ==
    \/ \E d \in {ContentDet, MotionDet} : add_detector(d)
    \/ clear
    \/ \E t \in 0..video_len : seek(t)
    \/ \E cb \in BOOLEAN : DetectScenesLogged(None, None, 0, cb)
    \/ DetectEntry
    \/ ReadFrame
    \/ ProcessDense
    \/ ProcessSparse
    \/ EndIteration
    \/ PostProcess
    \/ DetectReturn
    \/ ReadRaises
    \/ ProcessRaises
    \/ CallbackRaises
    \/ PostRaises

SpecRaise == Init /\ [][NextRaise]_vars

\* A manager to which detectors with common metric names are added, between
\* runs over the whole source.
NextRegister ==
    \/ \E d \in DenseTypes \cup SparseTypes \cup {EdgesDet} : add_detector(d)
    \/ clear
    \/ clear_detectors
    \/ detect_scenes(None, None, 0, FALSE)
    \/ DetectEntry
    \/ ReadFrame
    \/ ProcessDense
    \/ ProcessSparse
    \/ EndIteration
    \/ PostProcess
    \/ DetectReturn

SpecRegister == Init /\ [][NextRegister]_vars

\* The length of a source that never reports its end: more frames than the
\* runs of one behaviour can read when each is given a duration or an end_time.
Endless == MaxLen + MaxRuns * (MaxLen + MaxSkip) + 1

\* A source that ends, or one that does not.
InitEnding ==
    /\ InitObject
    /\ InitStats
    /\ video_len \in (0..MaxLen) \cup {Endless}
    /\ video_content = [f \in 0..(video_len - 1) |-> 0]
    /\ fn_args = <<>>
    /\ fn_ret = None

\* detect_scenes with any arguments; on the source without end, with a
\* duration or an end_time.
NextEnding ==
    \/ detector_list = <<>> /\ add_detector(ContentDet)
    \/ \E t \in 0..MaxLen : t <= video_len /\ seek(t)
    \/ \E d \in TimeArgs, e \in TimeArgs, fs \in 0..MaxSkip :
          /\ video_len = Endless => (d # None \/ e # None)
          /\ detect_scenes(d, e, fs, FALSE)
    \/ DetectEntry
    \/ ReadFrame
    \/ ProcessDense
    \/ EndIteration
    \/ PostProcess
    \/ DetectReturn

\* What detect_scenes does once called: the thread that called it runs on.
DetectStep ==
    \/ DetectEntry
    \/ ReadFrame
    \/ ProcessDense
    \/ EndIteration
    \/ PostProcess
    \/ DetectReturn

SpecEnding == InitEnding /\ [][NextEnding]_vars /\ WF_vars(DetectStep)

\* A manager constructed with a StatsManager, and a source whose frames carry
\* any content_val.
InitContent ==
    /\ InitManager
    /\ InitStats
    /\ stats_manager = ExternalSM
    /\ video_content \in [0..(video_len - 1) -> 0..MaxVal]
    /\ fn_args = <<>>
    /\ fn_ret = None

\* add_detector as the first detector of the manager.
AddOnlyDetector(d) == detector_list = <<>> /\ add_detector(d)

\* A manager used with one ContentDetector at a time, running detect_scenes
\* with the default arguments; the runs are logged.
NextContent ==
    \/ \E d \in ContentTypes : AddOnlyDetector(d)
    \/ clear
    \/ clear_detectors
    \/ \E t \in 0..video_len : seek(t)
    \/ detect_scenes(None, None, 0, FALSE)
    \/ DetectEntry
    \/ ReadFrame
    \/ ProcessContent
    \/ EndIteration
    \/ PostProcess
    \/ DetectReturnLogged

SpecContent == InitContent /\ [][NextContent]_vars

\* A ContentDetector on its own, about to be handed the frames from `start`
\* on: fn_args holds its threshold, its min_scene_len and start; fn_ret the
\* next frame, the state of the rule, the cuts emitted and the content_val of
\* the frames handed over.  prev_cut_frame is 0, or start after a reset.
InitContentRule ==
    /\ InitManager
    /\ InitStats
    /\ stats_manager = None
    /\ video_len = 0
    /\ video_content = <<>>
    /\ fn_args \in (1..MaxThreshold) \X (0..MaxMinSceneLen) \X (0..1)
    /\ fn_ret \in {[frame |-> fn_args[3], prev_cut_frame |-> p, cuts |-> <<>>, vals |-> <<>>] :
                       p \in {0, fn_args[3]}}

\* ContentDetector.process_frame of the next frame, whose content_val is val.
ContentProcessFrame(val) ==
    /\ fn_ret.frame < fn_args[3] + MaxFrames
    /\ LET emit == EmitsCut(val, fn_args[1], fn_ret.frame, fn_ret.prev_cut_frame,
                            fn_args[2])
       IN  fn_ret' = [frame |-> fn_ret.frame + 1,
                      prev_cut_frame |-> IF emit THEN fn_ret.frame
                                                 ELSE fn_ret.prev_cut_frame,
                      cuts |-> IF emit THEN Append(fn_ret.cuts, fn_ret.frame)
                                       ELSE fn_ret.cuts,
                      vals |-> Append(fn_ret.vals, val)]
    /\ UNCHANGED <<mgrVars, statsVars, videoVars, callVars, obsVars,
                   downscale_factor, cfgVars, cdVars, fn_args>>

NextContentRule == \E val \in 0..MaxVal : ContentProcessFrame(val)

SpecContentRule == InitContentRule /\ [][NextContentRule]_vars

----------------------------------------------------------------------------
(* save_images: the frames picked for each scene (lines 356-408) *)

\* range(start, end) of a scene, padded with its last frame to num_images
\* entries (line 401).
PadRange(start, end, num_images) ==
    LET r == [k \in 1..(end - start) |-> start + k - 1]
    IN  IF 1 + r[Len(r)] - r[1] >= num_images THEN r
        ELSE r \o [k \in 1..(num_images - Len(r)) |-> r[Len(r)]]

\* A split whose longer parts come last.
ArraySplit_LongLast(r, n) ==
    LET size == Len(r) \div n
        extra == Len(r) % n
        first(j) == (j - 1) * size + (IF j - 1 > n - extra THEN j - 1 - (n - extra) ELSE 0)
    IN  [j \in 1..n |->
            SubSeq(r, first(j) + 1, first(j) + size + (IF j > n - extra THEN 1 ELSE 0))]

\* np.array_split(r, n): n consecutive parts, the first Len(r) % n of them one
\* entry longer than the others.
ArraySplit(r, n) ==
    LET size == Len(r) \div n
        extra == Len(r) % n
        first(j) == (j - 1) * size + (IF j - 1 < extra THEN j - 1 ELSE extra)
    IN  [j \in 1..n |->
            SubSeq(r, first(j) + 1, first(j) + size + (IF j <= extra THEN 1 ELSE 0))]

\* The first and last picks without the clamp to the part.
PickFrame_Unclamped(a, j, num_images, frame_margin) ==
    IF (0 < j /\ j < num_images - 1) \/ num_images = 1 THEN a[(Len(a) \div 2) + 1]
    ELSE IF j = 0 THEN a[1] + frame_margin
    ELSE a[Len(a)] - frame_margin

\* Lines 388-394: the frame picked from part a, the j-th (from 0) of the split.
PickFrame(a, j, num_images, frame_margin) ==
    IF (0 < j /\ j < num_images - 1) \/ num_images = 1 THEN a[(Len(a) \div 2) + 1]
    ELSE IF j = 0
         THEN (IF a[1] + frame_margin < a[Len(a)] THEN a[1] + frame_margin ELSE a[Len(a)])
    ELSE (IF a[Len(a)] - frame_margin > a[1] THEN a[Len(a)] - frame_margin ELSE a[1])

\* Lines 384-408: the frames picked for every scene of the list.
timecode_list(scene_list, num_images, frame_margin) ==
    [i \in 1..Len(scene_list) |->
        LET parts == ArraySplit(PadRange(scene_list[i][1], scene_list[i][2], num_images),
                                num_images)
        IN  [j \in 1..num_images |-> PickFrame(parts[j], j - 1, num_images, frame_margin)]]

\* Scenes [s, e) with e > s.
Scenes == {<<st, st + len>> : st \in 0..1, len \in 1..MaxSceneLen}

\* Scene lists handed to save_images: none, or one scene.
SceneLists == {<<>>} \cup {<<sc>> : sc \in Scenes}

InitSaveImages ==
    /\ InitManager
    /\ InitStats
    /\ stats_manager = None
    /\ video_len = 0
    /\ video_content = <<>>
    /\ fn_args \in SceneLists \X (0..MaxImages) \X ((0 - 1)..MaxMargin)
    /\ fn_ret = [status |-> "pending", frames |-> <<>>]

\* save_images(scene_list, video, num_images, frame_margin) up to the choice of
\* the frames.
save_images ==
    /\ fn_ret.status = "pending"
    /\ LET scene_list == fn_args[1]
           num_images == fn_args[2]
           frame_margin == fn_args[3]
       IN  fn_ret' =
              IF scene_list = <<>> THEN [status |-> "returned", frames |-> <<>>]
              ELSE IF num_images <= 0 \/ frame_margin < 0
                   THEN [status |-> "ValueError", frames |-> <<>>]
              ELSE [status |-> "picked",
                    frames |-> timecode_list(scene_list, num_images, frame_margin)]
    /\ UNCHANGED <<mgrVars, statsVars, videoVars, callVars, obsVars,
                   downscale_factor, cfgVars, cdVars, fn_args>>

SpecSaveImages == InitSaveImages /\ [][save_images]_vars

----------------------------------------------------------------------------
(* write_scene_list (lines 147-186).  A cell of the CSV file is the text of   *)
(* a fixed string, or a value under the format it is written in.             *)

Cell(format, value) == [format |-> format, value |-> value]

\* cut_list=None, the default of the argument.
NotPassed == <<None>>

\* The header row (lines 168-172).
HeaderRow ==
    [k \in 1..10 |->
        Cell(<<"Scene Number", "Start Frame", "Start Timecode", "Start Time (seconds)",
               "End Frame", "End Timecode", "End Time (seconds)", "Length (frames)",
               "Length (timecode)", "Length (seconds)">>[k], None)]

\* The timecodes of a list, as cells.
TimecodeCells(tcs) == [k \in 1..Len(tcs) |-> Cell("timecode", tcs[k])]

\* `cut_list` as a condition: None and the empty list are false.
Truthy(cut_list) == cut_list # NotPassed /\ cut_list # <<>>

\* Lines 165-167: the conditional expression binds weaker than +, so the
\* label is part of its first branch only.
CutListRow(scene_list, cut_list) ==
    IF Truthy(cut_list)
    THEN <<Cell("Timecode List:", None)>> \o TimecodeCells(cut_list)
    ELSE TimecodeCells([k \in 1..(Len(scene_list) - 1) |-> scene_list[k + 1][1]])

\* Lines 173-186: the row of scene i (from 0).
SceneRow(i, start, end) ==
    <<Cell("%d", i + 1),
      Cell("%d", start), Cell("timecode", start), Cell("%.3f", start),
      Cell("%d", end), Cell("timecode", end), Cell("%.3f", end),
      Cell("%d", end - start), Cell("timecode", end - start), Cell("%.3f", end - start)>>

\* The rows write_scene_list writes.
CsvRows(scene_list, include_cut_list, cut_list) ==
    (IF include_cut_list THEN <<CutListRow(scene_list, cut_list)>> ELSE <<>>)
    \o <<HeaderRow>>
    \o [i \in 1..Len(scene_list) |-> SceneRow(i - 1, scene_list[i][1], scene_list[i][2])]

\* The scene lists the cuts in 1..MaxCsvFrames - 1 make of MaxCsvFrames frames,
\* and the empty one.
CsvSceneLists ==
    {<<>>} \cup {get_scenes_from_cuts(SortedSeqOfSet(cs), 0, MaxCsvFrames, 0) :
                    cs \in SUBSET (1..(MaxCsvFrames - 1))}

\* The cut lists passed: none, the empty one, or the cuts of a scene list.
CsvCutLists ==
    {NotPassed} \cup {SortedSeqOfSet(cs) : cs \in SUBSET (1..(MaxCsvFrames - 1))}

InitWriteSceneList ==
    /\ InitObject
    /\ InitStats
    /\ stats_manager = None
    /\ video_len = 0
    /\ video_content = <<>>
    /\ fn_args \in CsvSceneLists \X BOOLEAN \X CsvCutLists
    /\ fn_ret = [status |-> "pending", frames |-> <<>>]

\* write_scene_list(output_csv_file, scene_list, include_cut_list, cut_list)
write_scene_list ==
    /\ fn_ret.status = "pending"
    /\ fn_ret' = [status |-> "written",
                  frames |-> CsvRows(fn_args[1], fn_args[2], fn_args[3])]
    /\ UNCHANGED <<mgrVars, statsVars, videoVars, callVars, obsVars,
                   downscale_factor, cfgVars, cdVars, fn_args>>

SpecWriteSceneList == InitWriteSceneList /\ [][write_scene_list]_vars

----------------------------------------------------------------------------
(* video_splitter.py: split_video_mkvmerge and split_video_ffmpeg.  What an  *)
(* invocation of the tool does is an input: the code it returns, or the      *)
(* exception invoke_command raises.                                          *)

OSErrorRaised == 0 - 1
CommandTooLongRaised == 0 - 2
Raised == {OSErrorRaised, CommandTooLongRaised}

\* What one invocation may do: return 0, return another code, or raise.
InvokeOutcomes == {0, 1} \cup Raised

RECURSIVE FfmpegLoop(_, _, _)
\* Lines 245-273 of video_splitter.py: one invocation per scene, from scene i
\* on; the loop is left at the first code other than 0, and by an exception.
FfmpegLoop(outcomes, i, ret_val) ==
    IF i > Len(outcomes) THEN [ret_val |-> ret_val, invoked |-> i - 1]
    ELSE IF outcomes[i] \in Raised THEN [ret_val |-> ret_val, invoked |-> i]
    ELSE IF outcomes[i] # 0 THEN [ret_val |-> outcomes[i], invoked |-> i]
    ELSE FfmpegLoop(outcomes, i + 1, outcomes[i])

\* split_video_ffmpeg on a list of n scenes (lines 222-284).
SplitFfmpeg(n, outcomes) ==
    IF n = 0 THEN [ret_val |-> 0, invoked |-> 0]
    ELSE FfmpegLoop(outcomes, 1, 0)

\* split_video_mkvmerge on a list of n scenes (lines 152-191): one invocation
\* for all scenes.
SplitMkvmerge(n, outcomes) ==
    IF n = 0 THEN [ret_val |-> 0, invoked |-> 0]
    ELSE IF outcomes[1] \in Raised THEN [ret_val |-> 0, invoked |-> 1]
    ELSE [ret_val |-> outcomes[1], invoked |-> 1]

\* The arguments: the tool, the number of scenes and what each invocation the
\* function may make does.
SplitCalls ==
    {<<"ffmpeg", n, o>> : n \in 0..MaxSplitScenes,
                          o \in UNION {[1..k -> InvokeOutcomes] : k \in 0..MaxSplitScenes}}
    \cup {<<"mkvmerge", n, o>> : n \in 0..MaxSplitScenes, o \in [1..1 -> InvokeOutcomes]}

InitSplit ==
    /\ InitObject
    /\ InitStats
    /\ stats_manager = None
    /\ video_len = 0
    /\ video_content = <<>>
    /\ fn_args \in {a \in SplitCalls : a[1] = "ffmpeg" => Len(a[3]) = a[2]}
    /\ fn_ret = [ret_val |-> None, invoked |-> 0]

split_video_ffmpeg ==
    /\ fn_args[1] = "ffmpeg"
    /\ fn_ret.ret_val = None
    /\ fn_ret' = SplitFfmpeg(fn_args[2], fn_args[3])
    /\ UNCHANGED <<mgrVars, statsVars, videoVars, callVars, obsVars,
                   downscale_factor, cfgVars, cdVars, fn_args>>

split_video_mkvmerge ==
    /\ fn_args[1] = "mkvmerge"
    /\ fn_ret.ret_val = None
    /\ fn_ret' = SplitMkvmerge(fn_args[2], fn_args[3])
    /\ UNCHANGED <<mgrVars, statsVars, videoVars, callVars, obsVars,
                   downscale_factor, cfgVars, cdVars, fn_args>>

NextSplit == split_video_ffmpeg \/ split_video_mkvmerge

SpecSplit == InitSplit /\ [][NextSplit]_vars

----------------------------------------------------------------------------
(* FrameTimecode arithmetic.  Framerates are counted in thousandths of a     *)
(* frame per second and seconds in milliseconds, so that 23.976 fps is 23976 *)
(* and 1.5 s is 1500.                                                        *)

FpsValues == {10000, 23976, 29970, 30000, 60000}

\* Seconds added as a float or as a string '<s>s'.
SecondsValues == {0, 500, 1000, 1500, 2500}

\* What is added to a timecode: an int (frames), a float (seconds), a string
\* '<s>s' or a string 'HH:MM:SS.mmm' given by its fields.
Operands ==
    {[kind |-> "int", n |-> n] : n \in 0..2}
    \cup {[kind |-> "float", ms |-> ms] : ms \in SecondsValues}
    \cup {[kind |-> "seconds_str", ms |-> ms] : ms \in SecondsValues}
    \cup {[kind |-> "timecode_str", hh |-> 0, mm |-> m, ss |-> sec, mmm |-> ms] :
             m \in 0..1, sec \in 0..1, ms \in {0, 500}}

\* Nearest integer to n / d for n >= 0, ties to the even one (Python's round).
RoundHalfEven(n, d) ==
    LET q == n \div d
        r == n % d
    IN  IF 2 * r < d THEN q
        ELSE IF 2 * r > d THEN q + 1
        ELSE IF q % 2 = 0 THEN q ELSE q + 1

\* Seconds to frames by truncation.
SecondsToFrames_Floor(ms, fps) == (ms * fps) \div 1000000

\* Seconds to frames: round(seconds * fps).
SecondsToFrames(ms, fps) == RoundHalfEven(ms * fps, 1000000)

\* Total seconds of 'HH:MM:SS.mmm', in milliseconds.
ParseTimecode(x) == ((x.hh * 60 + x.mm) * 60 + x.ss) * 1000 + x.mmm

\* The seconds an operand stands for, in milliseconds (0 for a frame count).
MillisOf(x) ==
    IF x.kind = "int" THEN 0
    ELSE IF x.kind = "timecode_str" THEN ParseTimecode(x)
    ELSE x.ms

\* Frames an operand stands for at a framerate.
FramesOf(x, fps) ==
    IF x.kind = "int" THEN x.n
    ELSE IF x.kind = "timecode_str" THEN SecondsToFrames(ParseTimecode(x), fps)
    ELSE SecondsToFrames(x.ms, fps)

\* FrameTimecode.__add__: a new timecode of the same framerate.
TimecodeAdd(tc, x) == [frames |-> tc.frames + FramesOf(x, tc.fps), fps |-> tc.fps]

\* No timecode yet.
NoTimecode == [frames |-> None, fps |-> None]

\* timecode + operand is evaluated.
AddToTimecode ==
    /\ fn_ret = NoTimecode
    /\ fn_ret' = TimecodeAdd(fn_args[1], fn_args[2])
    /\ UNCHANGED <<mgrVars, statsVars, videoVars, callVars, obsVars,
                   downscale_factor, cfgVars, cdVars, fn_args>>

\* Every operand added to timecodes of frame 0 or 1 at every framerate.
InitTimecode ==
    /\ InitManager
    /\ InitStats
    /\ stats_manager = None
    /\ video_len = 0
    /\ video_content = <<>>
    /\ fn_args \in {p \in [frames : 0..1, fps : FpsValues] \X Operands :
                       MillisOf(p[2]) <= MaxProduct \div p[1].fps}
    /\ fn_ret = NoTimecode

SpecTimecode == InitTimecode /\ [][AddToTimecode]_vars

----------------------------------------------------------------------------

\* compute_downscale_factor(frame_width, effective_width) is called.
ComputeDownscaleFactor ==
    /\ fn_ret = None
    /\ fn_ret' = compute_downscale_factor(fn_args[1], fn_args[2])
    /\ UNCHANGED <<mgrVars, statsVars, videoVars, callVars, obsVars,
                   downscale_factor, cfgVars, cdVars, fn_args>>

\* compute_downscale_factor on every pair of widths within the bounds.
SpecDownscaleFactor ==
    InitFunction((1..MaxWidth) \X (1..MaxTarget)) /\ [][ComputeDownscaleFactor]_vars

----------------------------------------------------------------------------
(* Properties *)

\* detect_scenes has returned and nothing was called since.
Returned == pc = "idle" /\ outcome = "returned"

\* C1: after detect_scenes processed N frames from position start with only
\* dense detectors, the scene list starts at start, ends at start + N and
\* each scene ends where the next one starts.
C1_ScenePartition ==
    Returned =>
        LET S == get_scene_list
        IN  /\ S # <<>>
            /\ S[1][1] = entry_pos
            /\ S[Len(S)][2] = entry_pos + ret
            /\ \A k \in 1..(Len(S) - 1) : S[k][2] = S[k + 1][1]

\* C2: every scene (s, e) of the scene list after a detect_scenes run has e > s.
C2_ScenesNonEmpty ==
    Returned =>
        \A k \in 1..Len(get_scene_list) : get_scene_list[k][2] > get_scene_list[k][1]

\* C3: in every reachable state get_cut_list() is strictly increasing.
C3_CutListStrictlyIncreasing ==
    \A k \in 1..(Len(get_cut_list) - 1) : get_cut_list[k] < get_cut_list[k + 1]

\* C3 witness: the internal list holds the same frame twice and get_cut_list
\* returns cuts.
C3_Witness ==
    /\ \E a, b \in 1..Len(cutting_list) : a < b /\ cutting_list[a] = cutting_list[b]
    /\ get_cut_list # <<>>

\* The manager, its StatsManager and the source are as they were.
NothingChanged == UNCHANGED <<mgrVars, statsVars, videoVars>>

\* The call fails at once: it raises, and has read nothing.
FailsAtOnce == outcome' \in ValueErrors /\ pc' = "idle" /\ trace' = <<>>

\* C4: detect_scenes with frame_skip > 0 on a manager that holds a StatsManager
\* fails before any frame is read and before any manager state changes.
C4_FrameSkipRejected ==
    [][(pc = "entry" /\ args.frame_skip > 0 /\ stats_manager # None)
        => (FailsAtOnce /\ NothingChanged)]_vars

\* C4 witness: the call was made with frame_skip > 0 on a manager whose
\* StatsManager add_detector allocated, and it raised.
C4_Witness ==
    /\ pc = "idle"
    /\ outcome = ErrFrameSkip
    /\ args.frame_skip > 0
    /\ stats_manager = AutoSM

\* C5: detect_scenes with both duration and end_time, or a negative duration,
\* or a negative end_time, fails at once: nothing is read, nothing changes.
C5_BadTimesRejected ==
    [][(/\ pc = "entry"
        /\ \/ args.duration # None /\ args.end_time # None
           \/ args.duration # None /\ args.duration < 0
           \/ args.end_time # None /\ args.end_time < 0)
        => (FailsAtOnce /\ NothingChanged)]_vars

\* C5 witness: a call with both duration and end_time has raised on a manager
\* that holds the results of an earlier run.
C5_Witness ==
    /\ pc = "idle"
    /\ outcome = ErrBothTimes
    /\ args.duration # None /\ args.end_time # None
    /\ cutting_list # <<>>
    /\ num_frames > 0

\* Events of the trace.
TraceIdx(op) == {k \in 1..Len(trace) : trace[k].op = op}
FramesRead == {k \in TraceIdx("read") : trace[k].y = 1}

\* C6: with end_time E and frame_skip 0 on a source at frame S <= E holding
\* more than E frames, detect_scenes returns 1 + E - S, which is
\* source.frame_number - S.
C6_EndTimeCount ==
    (/\ Returned
     /\ args.end_time # None /\ args.duration = None /\ args.frame_skip = 0
     /\ entry_pos <= args.end_time
     /\ video_len > args.end_time)
    => (ret = 1 + args.end_time - entry_pos /\ ret = frame_number - entry_pos)

\* C6 witness: such a call has returned with frames left in the source.
C6_Witness ==
    /\ Returned
    /\ args.end_time # None /\ args.duration = None /\ args.frame_skip = 0
    /\ entry_pos <= args.end_time
    /\ video_len > args.end_time
    /\ frame_number < video_len

\* C7: with duration D and frame_skip 0, at most D frames are read, passed to
\* the detectors and counted in the returned value.
C7_DurationIsMaximum ==
    (Returned /\ args.duration # None /\ args.frame_skip = 0)
    => /\ ret <= args.duration
       /\ Cardinality(FramesRead) <= args.duration
       /\ \A d \in 1..Len(detector_list) :
             Cardinality({k \in TraceIdx("process_frame") : trace[k].det = d})
                <= args.duration

\* The case of C8: a first run with a callback on a manager with a single
\* dense detector that returned no cut from post_process.
SingleDetectorCallbackRun ==
    /\ Returned
    /\ runs = 1
    /\ args.callback
    /\ Len(detector_list) = 1
    /\ \A k \in TraceIdx("post_process") : trace[k].y = None

CallbackFrames == {trace[k].frame : k \in TraceIdx("callback")}
CallbackCount == Cardinality(TraceIdx("callback"))

\* What C8 concludes: one invocation per cut, on the cut's frame.
CallbackOncePerCut ==
    /\ CallbackCount = Len(get_cut_list)
    /\ CallbackCount = Len(get_scene_list) - 1
    /\ CallbackFrames = Range(get_cut_list)

\* C8 as stated: on a fresh manager with a single dense detector emitting at
\* most one cut per frame and none from post_process, the callback is invoked
\* once per cut and only on the firing frame: the invocations number the cuts,
\* which number len(get_scene_list()) - 1, and the frame_num arguments are the
\* cut frames.
C8_CallbackOncePerCut_Original == SingleDetectorCallbackRun => CallbackOncePerCut

\* Every cut process_frame returned is the frame it was called with.
CutsAreFiringFrames ==
    \A k \in TraceIdx("process_frame") : trace[k].y = None \/ trace[k].y = trace[k].frame

\* C8 amended: the same, for a detector whose every emitted cut is the index
\* of the frame being processed; in any case the callback is invoked exactly
\* once per process_frame call that returned a cut, with that call's frame_num.
C8_CallbackOncePerFiringFrame ==
    SingleDetectorCallbackRun =>
        /\ CallbackCount =
              Cardinality({k \in TraceIdx("process_frame") : trace[k].y # None})
        /\ CallbackFrames =
              {trace[k].frame : k \in {j \in TraceIdx("process_frame") : trace[j].y # None}}
        /\ CutsAreFiringFrames => CallbackOncePerCut

\* C8 witness: such a run in which the detector fired on two frames, each time
\* with the frame itself.
C8_Witness ==
    /\ SingleDetectorCallbackRun
    /\ CutsAreFiringFrames
    /\ CallbackCount = 2

\* Some registered detector requires processing of frame f.
AnyDetectorRequires(f) ==
    \E k \in 1..Len(detector_list) : DetRequires(detector_list[k], f)

\* C9: at each iteration a decoded frame is pulled if ANY registered detector
\* reports is_processing_required for frame_number or frame_number + 1; a
\* grab-only advance is requested only when no detector requires either.
C9_DecodeIfAnyRequires ==
    [][(pc = "read" /\ (AnyDetectorRequires(frame_number)
                         \/ AnyDetectorRequires(frame_number + 1)))
        => trace'[Len(trace')].x = 1]_vars

\* post_process calls of dense detector d in the trace.
PostCalls(d) == {k \in TraceIdx("post_process") : trace[k].det = d}

\* C10: in each detect_scenes call every dense detector's post_process is
\* called exactly once, after the last process_frame call, iff at least one
\* frame was read; with start_frame the source position at entry and end_frame
\* the last frame passed to process_frame; every cut it returns is in
\* get_cut_list().
C10_PostProcessOnce ==
    /\ \A k \in TraceIdx("post_process") :
          /\ FramesRead # {}
          /\ trace[k].frame = entry_pos
          /\ \A j \in TraceIdx("process_frame") : j < k /\ trace[j].frame <= trace[k].x
          /\ \E j \in TraceIdx("process_frame") : trace[j].frame = trace[k].x
          /\ trace[k].y # None => trace[k].y \in Range(get_cut_list)
    /\ \A d \in 1..Len(detector_list) : Cardinality(PostCalls(d)) <= 1
    /\ Returned =>
          \A d \in 1..Len(detector_list) :
              Cardinality(PostCalls(d)) = IF FramesRead # {} THEN 1 ELSE 0

\* C10 witness: a run over two frames with two dense detectors has returned,
\* and a post_process returned a cut.
C10_Witness ==
    /\ Returned
    /\ Len(detector_list) = 2
    /\ Cardinality(FramesRead) = 2
    /\ \E k \in TraceIdx("post_process") : trace[k].y # None

\* C11: clear() empties the cut list and the event list and resets the frame
\* count and the start frame to 0; it leaves the dense and sparse detector
\* lists, the StatsManager reference with every metric stored in it, and the
\* downscale / auto_downscale settings as they were.
C11_ClearEffect ==
    [][clear =>
         /\ cutting_list' = <<>> /\ event_list' = <<>>
         /\ num_frames' = 0 /\ start_frame' = 0
         /\ UNCHANGED <<detector_list, sparse_detector_list, stats_manager,
                        registered_metrics, frame_metrics,
                        downscale, auto_downscale>>]_vars

\* C11 witness: the counters are back at 0 although the source was read, on a
\* manager that holds detectors of both kinds, stored metrics and assigned
\* settings.
C11_Witness ==
    /\ pc = "idle"
    /\ frame_number > 0 /\ base_timecode # None
    /\ num_frames = 0 /\ start_frame = 0
    /\ cutting_list = <<>> /\ event_list = <<>>
    /\ detector_list # <<>> /\ sparse_detector_list # <<>>
    /\ frame_metrics # {}
    /\ downscale > 1 /\ auto_downscale

\* C12: in any state, clear() makes get_cut_list(), get_event_list() and
\* get_scene_list() each return an empty list.
C12_ClearEmptiesQueries ==
    [][clear =>
         /\ get_cut_list_of(cutting_list', base_timecode') = <<>>
         /\ get_event_list_of(event_list', base_timecode') = <<>>
         /\ get_scene_list_of(cutting_list', event_list', base_timecode',
                              num_frames', start_frame') = <<>>]_vars

\* The case of C13: d requires a StatsManager and the manager has none.
RequiresNewStats(d) == stats_manager = None /\ d.req

\* add_detector(d) succeeded on a manager without StatsManager: an empty one
\* was allocated, holds d's metric names, and d is last in its list.
AddSucceeds(d) ==
    /\ outcome' = "none"
    /\ stats_manager' = AutoSM
    /\ registered_metrics' = d.metrics
    /\ frame_metrics' = {}
    /\ IF d.sparse
       THEN /\ sparse_detector_list' = Append(sparse_detector_list, [d EXCEPT !.sm = AutoSM])
            /\ detector_list' = detector_list
       ELSE /\ detector_list' = Append(detector_list, [d EXCEPT !.sm = AutoSM])
            /\ sparse_detector_list' = sparse_detector_list

\* C13 as stated: with no StatsManager, add_detector(d) for a d that requires
\* one succeeds whether or not other detectors were added before d.
C13_AddAlwaysSucceeds_Original ==
    [][\A d \in DenseTypes \cup SparseTypes :
          (RequiresNewStats(d) /\ add_detector(d)) => AddSucceeds(d)]_vars

\* C13 amended: with no StatsManager, add_detector(d) for a d that requires
\* one succeeds when both detector lists are empty; when a detector was added
\* before d it fails with an AssertionError and changes nothing.
C13_AddSucceedsOnEmptyLists ==
    [][\A d \in DenseTypes \cup SparseTypes :
          (RequiresNewStats(d) /\ add_detector(d)) =>
             IF detector_list = <<>> /\ sparse_detector_list = <<>>
             THEN AddSucceeds(d)
             ELSE outcome' = "AssertionError" /\ UNCHANGED <<mgrVars, statsVars>>]_vars

\* C13 witness: the call failed on a manager without StatsManager that holds
\* a sparse detector added before.
C13_Witness ==
    /\ pc = "idle"
    /\ outcome = "AssertionError"
    /\ stats_manager = None
    /\ sparse_detector_list # <<>>

C15_DownscaleAtLeastOne ==
    /\ [](downscale \in Nat /\ downscale >= 1)
    /\ [][\A h \in DownscaleValues :
            set_downscale(h) =>
               IF h < 2
               THEN outcome' = ErrDownscale /\ downscale' = downscale
               ELSE /\ outcome' = "none"
                    /\ 2 * downscale' <= h /\ h < 2 * downscale' + 2]_vars

\* C15 witness: an assignment was refused on a manager whose factor an earlier
\* assignment had set.
C15_Witness ==
    /\ pc = "idle"
    /\ outcome = ErrDownscale
    /\ downscale = MaxDownscale

\* How often p occurs in the list s.
Count(p, s) == Cardinality({i \in 1..Len(s) : s[i] = p})

\* The k + 1 scenes the k distinct cuts make of the frames [start, start + n).
ScenesOfCuts(cuts, start, n) ==
    [i \in 1..(Len(cuts) + 1) |->
        <<IF i = 1 THEN start ELSE cuts[i - 1],
          IF i = Len(cuts) + 1 THEN start + n ELSE cuts[i]>>]

\* C16: after detect_scenes, get_scene_list() is sorted ascending by start
\* timecode and holds exactly the pairs of get_event_list() together with the
\* k + 1 scenes of the k distinct cuts: (start, cut_1), ..., (cut_k, start +
\* num_frames), the single scene (start, start + num_frames) when k = 0.
C16_SceneListIsEventsAndCutScenes ==
    Returned =>
        LET S == get_scene_list
            D == ScenesOfCuts(get_cut_list, entry_pos, ret)
        IN  /\ \A i \in 1..(Len(S) - 1) : S[i][1] <= S[i + 1][1]
            /\ Len(S) = Len(get_event_list) + Len(get_cut_list) + 1
            /\ \A i \in 1..Len(S) :
                  Count(S[i], S) = Count(S[i], get_event_list) + Count(S[i], D)
            /\ \A i \in 1..Len(D) : D[i] \in Range(S)
            /\ \A i \in 1..Len(get_event_list) : get_event_list[i] \in Range(S)

\* C16 witness: a run that did not start at frame 0 has returned with a cut
\* and an event in the lists.
C16_Witness ==
    /\ Returned
    /\ entry_pos > 0 /\ ret > 0
    /\ get_cut_list # <<>>
    /\ get_event_list # <<>>

\* The case of C17: two runs were made from the same position with the same
\* StatsManager and the same detector parameters, the cuts cleared in between.
RunRepeated ==
    /\ Len(run_log) = 2
    /\ run_log[1].entry_pos = run_log[2].entry_pos
    /\ run_log[1].sm # None /\ run_log[1].sm = run_log[2].sm
    /\ run_log[1].dets # <<>> /\ run_log[1].dets = run_log[2].dets
    /\ run_log[2].cuts = SortedSeqOfSet(run_log[2].emitted)

\* The second run computed no metric of a frame that had its metrics stored,
\* and left the stored values as they were.
CacheUntouched ==
    /\ \A f \in run_log[2].computed :
          \E m \in ContentDetector(1, 0).metrics : <<f, m>> \notin run_log[1].stored
    /\ \A f \in DOMAIN run_log[1].cache :
          run_log[1].cache[f] # None => run_log[2].cache[f] = run_log[1].cache[f]

\* C17: running detect_scenes twice over the same frames from the same start,
\* with the same StatsManager and detector parameters and the cuts cleared in
\* between, yields identical cut lists, and the second run neither recomputes
\* nor overwrites the metrics of a frame whose metrics exist.
C17_RerunSameCuts ==
    RunRepeated => (run_log[2].cuts = run_log[1].cuts /\ CacheUntouched)

\* C18: whatever the content_val of the frames, the threshold and the
\* min_scene_len, the cut emission rule of the ContentDetector emits no two
\* cuts whose frame indices differ by less than min_scene_len, and no cut at a
\* frame whose content_val is below the threshold.
C18_CutsApartAndAboveThreshold ==
    /\ \A i, j \in 1..Len(fn_ret.cuts) :
          i < j => fn_ret.cuts[j] - fn_ret.cuts[i] >= fn_args[2]
    /\ \A i \in 1..Len(fn_ret.cuts) :
          fn_ret.vals[fn_ret.cuts[i] - fn_args[3] + 1] >= fn_args[1]

\* C18 witness: two cuts were emitted, and between them a frame whose
\* content_val reached the threshold was passed over.
C18_Witness ==
    /\ Len(fn_ret.cuts) = 2
    /\ fn_args[2] > 1
    /\ \E k \in 1..Len(fn_ret.vals) :
          /\ fn_ret.vals[k] >= fn_args[1]
          /\ fn_ret.cuts[1] < fn_args[3] + k - 1
          /\ fn_args[3] + k - 1 < fn_ret.cuts[2]

\* The frames the addition advanced the timecode by.
Advance == fn_ret.frames - fn_args[1].frames

\* a is the integer nearest to ms / 1000 * fps / 1000.
NearestFrames(a, ms, fps) ==
    /\ a * 1000000 - ms * fps <= 500000
    /\ ms * fps - a * 1000000 <= 500000

\* What was added, at frame 0 and 10 fps.
AddedAtTen(x) ==
    /\ fn_args[1] = [frames |-> 0, fps |-> 10000]
    /\ fn_args[2].kind = x.kind
    /\ fn_args[2] = x

\* C19: adding to a FrameTimecode keeps its fps and advances its frame index
\* by n for an int n, by round(s * fps) for a real s or a string '<s>s', and
\* by round(seconds * fps) for a string 'HH:MM:SS.mmm'.  At 10 fps from frame
\* 0: + 1 is frame 1, + 1.0 is frame 10, + '00:00:01.500' and + '1.5s' are
\* frame 15; and 0 + '1.5s' is frame round(1.5 * fps) at every framerate.
C19_TimecodeAddition ==
    fn_ret # NoTimecode =>
        LET x == fn_args[2]
            fps == fn_args[1].fps
        IN  /\ fn_ret.fps = fps
            /\ x.kind = "int" => Advance = x.n
            /\ x.kind \in {"float", "seconds_str"} => NearestFrames(Advance, x.ms, fps)
            /\ x.kind = "timecode_str" =>
                  NearestFrames(Advance, 3600000 * x.hh + 60000 * x.mm + 1000 * x.ss + x.mmm,
                                fps)
            /\ AddedAtTen([kind |-> "int", n |-> 1]) => fn_ret.frames = 1
            /\ AddedAtTen([kind |-> "float", ms |-> 1000]) => fn_ret.frames = 10
            /\ AddedAtTen([kind |-> "timecode_str", hh |-> 0, mm |-> 0, ss |-> 1,
                           mmm |-> 500]) => fn_ret.frames = 15
            /\ AddedAtTen([kind |-> "seconds_str", ms |-> 1500]) => fn_ret.frames = 15
            /\ (fn_args[1].frames = 0 /\ x.kind = "seconds_str" /\ x.ms = 1500) =>
                  fn_ret.frames = (CASE fps = 10000 -> 15
                                     [] fps = 23976 -> 36
                                     [] fps = 29970 -> 45
                                     [] fps = 30000 -> 45
                                     [] fps = 60000 -> 90)

\* C19 witness: '1.5s' was added to frame 0 at 23.976 fps, where 35.964 is
\* rounded up to frame 36.
C19_Witness ==
    /\ fn_args[1] = [frames |-> 0, fps |-> 23976]
    /\ fn_args[2].kind = "seconds_str"
    /\ fn_args[2].ms = 1500
    /\ fn_ret = [frames |-> 36, fps |-> 23976]

\* C20: for every scene [s, e) with e > s, every num_images N >= 1 and every
\* frame_margin >= 0, save_images picks exactly N frames for the scene, each
\* within [s, e), in non-decreasing order, also when the scene has fewer than
\* N frames.
C20_SamplesWithinScene ==
    fn_ret.status = "picked" =>
        \A i \in 1..Len(fn_args[1]) :
            LET picks == fn_ret.frames[i]
            IN  /\ Len(picks) = fn_args[2]
                /\ \A j \in 1..Len(picks) :
                      fn_args[1][i][1] <= picks[j] /\ picks[j] < fn_args[1][i][2]
                /\ \A j \in 1..(Len(picks) - 1) : picks[j] <= picks[j + 1]

\* C20 witness: frames were picked with a margin for a scene that has fewer
\* frames than images.
C20_Witness ==
    /\ fn_ret.status = "picked"
    /\ fn_args[3] > 0
    /\ fn_args[1][1][2] - fn_args[1][1][1] < fn_args[2]
    /\ Len(fn_ret.frames[1]) = fn_args[2]

\* The scene, the number of images and the margin save_images was called with.
SceneStart == fn_args[1][1][1]
SceneEnd == fn_args[1][1][2]
NumImages == fn_args[2]
FrameMargin == fn_args[3]

\* Frames were picked for a scene with at least two images.
PickedSeveral == fn_ret.status = "picked" /\ NumImages >= 2

\* The j-th bucket (from 0) of the even split of the scene [s, e) in n: its
\* first frame and the frame after its last one.  A scene of fewer than n
\* frames is padded with its last frame, one entry per bucket.
BucketLo(s, e, n, j) ==
    IF e - s < n THEN (IF s + j < e - 1 THEN s + j ELSE e - 1)
    ELSE s + j * ((e - s) \div n) + (IF j < (e - s) % n THEN j ELSE (e - s) % n)
BucketHi(s, e, n, j) ==
    IF e - s < n THEN BucketLo(s, e, n, j) + 1
    ELSE BucketLo(s, e, n, j + 1)
BucketMiddle(s, e, n, j) ==
    BucketLo(s, e, n, j) + ((BucketHi(s, e, n, j) - BucketLo(s, e, n, j)) \div 2)

MinOf(a, b) == IF a < b THEN a ELSE b
MaxOf(a, b) == IF a > b THEN a ELSE b

\* The frames between the first and the last pick are the bucket middles.
MiddlePicks ==
    \A j \in 1..(NumImages - 2) :
        fn_ret.frames[1][j + 1] = BucketMiddle(SceneStart, SceneEnd, NumImages, j)

\* C21 as stated: for every scene [s, e) and N >= 2 images with margin m >= 0,
\* save_images emits min(s + m, e - 1) for the first bucket, max(e - 1 - m, s)
\* for the last bucket, and the middle frame of the bucket for every other
\* bucket of the N-way even split of [s, e).
C21_MarginClampedToScene_Original ==
    PickedSeveral =>
        /\ fn_ret.frames[1][1] = MinOf(SceneStart + FrameMargin, SceneEnd - 1)
        /\ fn_ret.frames[1][NumImages] = MaxOf(SceneEnd - 1 - FrameMargin, SceneStart)
        /\ MiddlePicks

\* C21 amended: the first bucket emits min(s + m, last frame of the first
\* bucket), the last bucket emits max(e - 1 - m, first frame of the last
\* bucket), and every other bucket of the N-way even split of [s, e) emits
\* its middle frame.
C21_MarginClampedToBucket ==
    PickedSeveral =>
        /\ fn_ret.frames[1][1] =
              MinOf(SceneStart + FrameMargin,
                    BucketHi(SceneStart, SceneEnd, NumImages, 0) - 1)
        /\ fn_ret.frames[1][NumImages] =
              MaxOf(SceneEnd - 1 - FrameMargin,
                    BucketLo(SceneStart, SceneEnd, NumImages, NumImages - 1))
        /\ MiddlePicks

\* C21 witness: frames were picked for a scene of uneven buckets with a margin
\* that reaches beyond the first bucket, and the first pick stayed in it.
C21_Witness ==
    /\ PickedSeveral
    /\ NumImages >= 3
    /\ (SceneEnd - SceneStart) % NumImages # 0
    /\ SceneEnd - SceneStart > NumImages
    /\ fn_ret.frames[1][1] < MinOf(SceneStart + FrameMargin, SceneEnd - 1)

\* Detectors as the trace numbers them: dense ones by their index, sparse ones
\* after them.
HeldDetectors ==
    (1..Len(detector_list))
    \cup {MaxDetectors + i : i \in 1..Len(sparse_detector_list)}

\* The process_frame calls of detector d, in the order they were made.
ProcessCalls(d) ==
    SortedSeqOfSet({k \in TraceIdx("process_frame") : trace[k].det = d})

\* The last read before position k of the trace.
LastReadBefore(k) ==
    CHOOSE j \in TraceIdx("read") :
        j < k /\ \A i \in TraceIdx("read") : i < k => i <= j

\* C22: during detect_scenes with frame_skip k from source position S, every
\* registered detector's process_frame is called with the frame indices S,
\* S + (k + 1), S + 2 (k + 1), ... in increasing order, once per index, each
\* index being source.frame_number - 1 right after the read, for a grab-only
\* read as for a decoded frame; no index at or beyond the source's end is passed.
C22_ProcessedIndices ==
    (pc # "idle" \/ Returned) =>
        \A d \in HeldDetectors :
            LET calls == ProcessCalls(d)
            IN  \A n \in 1..Len(calls) :
                   LET ev == trace[calls[n]]
                       rd == trace[LastReadBefore(calls[n])]
                   IN  /\ ev.frame = entry_pos + (n - 1) * (args.frame_skip + 1)
                       /\ ev.frame < video_len
                       /\ rd.y = 1 /\ ev.frame = (rd.frame + 1) - 1
                       /\ \A i \in TraceIdx("read") :
                             (i < calls[n] /\ trace[i].y = 1 /\ trace[i].frame = ev.frame)
                                => i = LastReadBefore(calls[n])

\* C22 witness: a run with frames skipped, not from frame 0, has returned after
\* a dense and a sparse detector were each handed two frames, and the source
\* ended among the skipped frames.
C22_Witness ==
    /\ Returned
    /\ args.frame_skip > 0
    /\ entry_pos > 0
    /\ detector_list # <<>> /\ sparse_detector_list # <<>>
    /\ \A d \in HeldDetectors : Len(ProcessCalls(d)) = 2
    /\ ret < 2 * (args.frame_skip + 1)

\* The process_frame calls made for frame f, in the order they were made.
CallsOnFrame(f) ==
    SortedSeqOfSet({k \in TraceIdx("process_frame") : trace[k].frame = f})

\* The process_frame calls for frame f that returned a cut or an event.
FiredOnFrame(f) == {k \in TraceIdx("process_frame") : trace[k].frame = f /\ trace[k].y # None}

\* The detectors in the order _process_frame runs them: the dense ones in
\* registration order, then the sparse ones in registration order.
RunOrder == SortedSeqOfSet(HeldDetectors)

\* C23: within one frame, detectors run in registration order with all dense
\* detectors before all sparse detectors; when a detector fires, the callback
\* is invoked for it before the next detector's process_frame runs on that
\* frame; two detectors firing on the same frame produce two callback
\* invocations while the frame appears once in get_cut_list().
C23_OrderWithinFrame ==
    (pc # "idle" \/ Returned) =>
        /\ \A f \in 0..(video_len - 1) :
              LET calls == CallsOnFrame(f)
              IN  /\ Len(calls) <= Len(RunOrder)
                  /\ \A n \in 1..Len(calls) : trace[calls[n]].det = RunOrder[n]
                  /\ \A n \in 1..(Len(calls) - 1) : calls[n] < calls[n + 1]
                  /\ args.callback =>
                        Cardinality({k \in TraceIdx("callback") : trace[k].frame = f})
                           = Cardinality(FiredOnFrame(f))
        /\ \A k \in TraceIdx("process_frame") :
              /\ (trace[k].y # None /\ args.callback) =>
                    /\ k + 1 \in TraceIdx("callback")
                    /\ trace[k + 1].det = trace[k].det
                    /\ trace[k + 1].frame = trace[k].frame
              /\ (trace[k].y # None /\ trace[k].det <= MaxDetectors) =>
                    Count(trace[k].y, get_cut_list) = 1
        /\ \A k \in TraceIdx("callback") :
              /\ args.callback
              /\ k - 1 \in TraceIdx("process_frame")
              /\ trace[k - 1].y # None

\* Two dense detectors returned the same cut for frame f.
SameCutTwice(f) ==
    \E a, b \in FiredOnFrame(f) :
        /\ trace[a].det < trace[b].det /\ trace[b].det <= MaxDetectors
        /\ trace[a].y = trace[b].y

\* C23 witness: a run with a callback has returned in which two dense
\* detectors fired on one frame with the same cut and a sparse detector fired
\* on that frame after them.
C23_Witness ==
    /\ Returned
    /\ args.callback
    /\ \E f \in 0..(video_len - 1) :
          /\ SameCutTwice(f)
          /\ \E k \in FiredOnFrame(f) : trace[k].det > MaxDetectors
          /\ Cardinality({k \in TraceIdx("callback") : trace[k].frame = f}) = 3

\* C24: when the callback is invoked because a dense detector returned cuts
\* for frame f, those cuts are already in the manager's cut list, so
\* get_cut_list() called from inside the callback contains them; likewise the
\* event list holds a sparse detector's events when its callback runs.
C24_CallbackSeesResult ==
    \A k \in TraceIdx("callback") : trace[k].y = 1

\* C25: detect_scenes always terminates on a source with finitely many frames,
\* for every frame_skip (also when the source ends among the skipped frames);
\* on a source that never reports its end it terminates whenever end_time or
\* duration is given, without reading as far as the model's stand-in for such
\* a source reaches.
C25_DetectScenesTerminates ==
    /\ [](video_len = Endless => frame_number < video_len)
    /\ (pc # "idle") ~> (pc = "idle" /\ outcome # "none")

\* C25 witness: a second run with a duration and skipped frames has returned on
\* the source that does not end, having read frames.
C25_Witness ==
    /\ Returned
    /\ video_len = Endless
    /\ runs = MaxRuns
    /\ args.duration # None /\ args.duration > 0
    /\ args.frame_skip > 0
    /\ ret = args.frame_skip + 1

\* detect_scenes has failed inside its main loop and nothing was called since.
Failed == pc = "idle" /\ outcome = "Exception"

\* C26: if detect_scenes fails partway through the main loop (process_frame,
\* post_process, the source read or the callback raises), no partial result is
\* left behind: the cut list, the event list, the start frame and the frame
\* count are as they were before the call, and get_scene_list() returns what
\* it returned before.
C26_NoPartialResult ==
    Failed =>
        /\ cutting_list = run_log[1].cutting_list
        /\ event_list = run_log[1].event_list
        /\ start_frame = run_log[1].start_frame
        /\ num_frames = run_log[1].num_frames
        /\ get_scene_list = run_log[1].scene_list

\* The list s is the beginning of the list t.
IsPrefix(s, t) == Len(s) <= Len(t) /\ SubSeq(t, 1, Len(s)) = s

\* C27: the manager's cut list and event list only grow between calls to
\* clear(): no step of detect_scenes, add_detector or clear_detectors removes
\* an entry, so every cut and event the queries returned they still return
\* after a second detect_scenes without a clear() in between.
C27_ResultsOnlyGrow ==
    [][clear \/ (/\ IsPrefix(cutting_list, cutting_list')
                 /\ IsPrefix(event_list, event_list')
                 /\ Range(get_cut_list) \subseteq
                       Range(get_cut_list_of(cutting_list', base_timecode'))
                 /\ Range(get_event_list) \subseteq
                       Range(get_event_list_of(event_list', base_timecode')))]_vars

\* C27 witness: a second run that started at the end of the source, and so
\* handed no frame to a detector, has returned, and the queries return the cut
\* and the event of the first run.
C27_Witness ==
    /\ Returned
    /\ runs = 2
    /\ entry_pos = video_len
    /\ TraceIdx("process_frame") = {}
    /\ get_cut_list # <<>>
    /\ get_event_list # <<>>

\* C28: write_scene_list with include_cut_list true writes as its first row
\* the cell "Timecode List:" followed by the cut timecodes (the passed
\* cut_list, or when cut_list is not passed the start timecode of every scene
\* after the first), then the header row, then one row per scene numbered
\* from 1 in list order.  An empty cut_list counts as not passed.
C28_CsvLayout ==
    (fn_ret.status = "written" /\ fn_args[2]) =>
        LET rows == fn_ret.frames
            scene_list == fn_args[1]
            cuts == IF Truthy(fn_args[3]) THEN fn_args[3]
                    ELSE [k \in 1..(Len(scene_list) - 1) |-> scene_list[k + 1][1]]
        IN  /\ Len(rows) = 2 + Len(scene_list)
            /\ Len(rows[1]) = 1 + Len(cuts)
            /\ rows[1][1].format = "Timecode List:"
            /\ \A k \in 1..Len(cuts) : rows[1][k + 1] = Cell("timecode", cuts[k])
            /\ rows[2] = HeaderRow
            /\ \A i \in 1..Len(scene_list) :
                  /\ rows[2 + i][1] = Cell("%d", i)
                  /\ rows[2 + i][2] = Cell("%d", scene_list[i][1])
                  /\ rows[2 + i][5] = Cell("%d", scene_list[i][2])

\* The invocations a splitter call made: the first fn_ret.invoked outcomes.
InvokedOutcomes == {fn_args[3][k] : k \in 1..fn_ret.invoked}

\* C29: split_video_mkvmerge and split_video_ffmpeg return 0 only on success:
\* 0 means that scene_list was empty and no command was invoked, or that every
\* command was invoked and returned 0; when the tool cannot be run (OSError or
\* CommandTooLong) or an invocation returns non-zero the result is non-zero,
\* and split_video_ffmpeg invokes no further scene after the first non-zero
\* code.
C29_ZeroOnlyOnSuccess ==
    fn_ret.ret_val # None =>
        LET n == fn_args[2]
            commands == IF fn_args[1] = "ffmpeg" THEN n ELSE IF n = 0 THEN 0 ELSE 1
        IN  /\ fn_ret.ret_val = 0 =>
                  \/ n = 0 /\ fn_ret.invoked = 0
                  \/ fn_ret.invoked = commands /\ InvokedOutcomes = {0}
            /\ InvokedOutcomes \ {0} # {} => fn_ret.ret_val # 0
            /\ \A k \in 1..(fn_ret.invoked - 1) : fn_args[3][k] = 0

\* The detectors the manager holds, dense and sparse.
HeldDetectorObjects == Range(detector_list) \cup Range(sparse_detector_list)

====
